---- MODULE Spec2Model ----
(***************************************************************************)
(* Result Processor (src/app.py): the students / subjects / marks tables   *)
(* of data/results.db, the grading routine grade_from_percent, the report  *)
(* routine compute_student_report, the data operations add_student,        *)
(* add_subject and add_marks, the Dashboard batch loops and the login      *)
(* session flag.                                                           *)
(*                                                                         *)
(* Numbers.  marks, max_marks and credits are REAL columns; the inputs     *)
(* drawn here are integer-valued.  A percent is kept exactly, as the       *)
(* fraction n/d (d > 0) or as one of the IEEE results of a division by     *)
(* zero: "inf", "ninf", "nan".  A cgpa is kept in hundredths (886 stands   *)
(* for 8.86), i.e. as the value round(cgpa, 2) * 100.                      *)
(***************************************************************************)
EXTENDS Integers, Sequences, FiniteSets, TLC

VARIABLES
    students,   \* table students: rows in rowid order
    subjects,   \* table subjects: rows in rowid order
    marks,      \* table marks: rows in rowid order
    logged_in,  \* st.session_state.logged_in, one per browser session
    call,       \* the operation that ran last: its name, arguments, id, message, session
    result,     \* what the operation that ran last returned
    pc,         \* per session: position inside compute_student_report
    loc         \* per session: locals of the running compute_student_report

vars == <<students, subjects, marks, logged_in, call, result, pc, loc>>

(***************************************************************************)
(* Inputs                                                                  *)
(***************************************************************************)
Sessions == {"s1", "s2"}

\* the session that issues the operations when they run one at a time
SeqSessions == {"s1"}

\* (roll, name, program) triples passed to add_student
StudentInputs == {<<"r1", "n1", "p1">>, <<"r2", "n2", "p1">>, <<"r1", "n2", "p2">>}

\* (code, title, credits) triples passed to add_subject
SubjectInputs == {<<"c1", "t1", 0>>, <<"c1", "t1", 3>>, <<"c2", "t2", 4>>}

\* (marks, max_marks) pairs passed to add_marks
MarkInputs == {<<45, 50>>, <<20, 50>>, <<45, 0>>, <<0, 0>>}

\* (roll, subject_code) pairs passed to add_marks
MarkPairs == {<<"r1", "c1">>, <<"r1", "c2">>, <<"r2", "c2">>}

Rolls == {"r1", "r2"}

\* student ids passed to compute_student_report; 3 is never a stored id
SidInputs == {1, 2, 3}

\* values of datetime.utcnow()
Clock == {"t1", "t2"}

Usernames == {"admin", "guest"}

Passwords == {"1234", "0000"}

\* rows the marks table may hold
MaxMarkRows == 2

\* ORDER BY roll: the collation order of the roll strings
RollRank == [r1 |-> 1, r2 |-> 2]

NoneVal == [kind |-> "None"]

(***************************************************************************)
(* grade_from_percent                                                      *)
(***************************************************************************)
Fin(n, d) == [k |-> "fin", n |-> n, d |-> d]

\* marks / max_marks * 100 on float64 columns: a division by zero raises
\* nothing and yields inf, -inf or nan
Percent(m, mm) ==
    IF mm > 0 THEN Fin(m * 100, mm)
    ELSE IF mm < 0 THEN Fin(-(m * 100), -mm)
    ELSE IF m > 0 THEN [k |-> "inf", n |-> 0, d |-> 1]
    ELSE IF m < 0 THEN [k |-> "ninf", n |-> 0, d |-> 1]
    ELSE [k |-> "nan", n |-> 0, d |-> 1]

\* p >= t for a float p: false for nan
GE(p, t) ==
    CASE p.k = "fin" -> p.n >= t * p.d
      [] p.k = "inf" -> TRUE
      [] OTHER -> FALSE

\* variant: p > t, the boundary excluded
GEStrict(p, t) ==
    CASE p.k = "fin" -> p.n > t * p.d
      [] p.k = "inf" -> TRUE
      [] OTHER -> FALSE

\* variant of grade_from_percent: strict comparisons
grade_from_percent_gt(p) ==
    IF GEStrict(p, 90) THEN <<"A+", 10>>
    ELSE IF GEStrict(p, 80) THEN <<"A", 9>>
    ELSE IF GEStrict(p, 70) THEN <<"B+", 8>>
    ELSE IF GEStrict(p, 60) THEN <<"B", 7>>
    ELSE IF GEStrict(p, 50) THEN <<"C", 6>>
    ELSE IF GEStrict(p, 40) THEN <<"D", 5>>
    ELSE <<"F", 0>>

grade_from_percent(p) ==
    IF GE(p, 90) THEN <<"A+", 10>>
    ELSE IF GE(p, 80) THEN <<"A", 9>>
    ELSE IF GE(p, 70) THEN <<"B+", 8>>
    ELSE IF GE(p, 60) THEN <<"B", 7>>
    ELSE IF GE(p, 50) THEN <<"C", 6>>
    ELSE IF GE(p, 40) THEN <<"D", 5>>
    ELSE <<"F", 0>>

(***************************************************************************)
(* compute_student_report                                                  *)
(***************************************************************************)
Range(s) == {s[i] : i \in 1..Len(s)}

RECURSIVE SumSeq(_)
SumSeq(s) == IF s = <<>> THEN 0 ELSE Head(s) + SumSeq(Tail(s))

Column(df, c) == [i \in 1..Len(df) |-> df[i][c]]

\* the SELECT of compute_student_report: students JOIN marks JOIN subjects
\* WHERE s.student_id = sid, one row per marks row, in rowid order
JoinRow(m) ==
    LET s == CHOOSE x \in Range(students) : x.student_id = m.student_id
        sub == CHOOSE x \in Range(subjects) : x.subject_id = m.subject_id
    IN  [student_id |-> s.student_id, roll |-> s.roll, name |-> s.name,
         code |-> sub.code, title |-> sub.title, credits |-> sub.credits,
         marks |-> m.marks, max_marks |-> m.max_marks]

Joined(m, sid) ==
    /\ m.student_id = sid
    /\ \E x \in Range(students) : x.student_id = m.student_id
    /\ \E x \in Range(subjects) : x.subject_id = m.subject_id

\* variant of ReportQuery: the rows in descending rowid order
ReportQuery_reversed(sid) ==
    LET ms == SelectSeq(marks, LAMBDA m : Joined(m, sid))
    IN  [i \in 1..Len(ms) |-> JoinRow(ms[Len(ms) + 1 - i])]

ReportQuery(sid) ==
    LET ms == SelectSeq(marks, LAMBDA m : Joined(m, sid))
    IN  [i \in 1..Len(ms) |-> JoinRow(ms[i])]

\* variant of GradeRow: the raw marks graded as if they were the percent
GradeRow_marks_as_percent(r) ==
    LET p == Percent(r.marks, r.max_marks)
        g == grade_from_percent(Fin(r.marks, 1))
    IN  [student_id |-> r.student_id, roll |-> r.roll, name |-> r.name,
         code |-> r.code, title |-> r.title, credits |-> r.credits,
         marks |-> r.marks, max_marks |-> r.max_marks,
         percent |-> p, grade |-> g[1], grade_point |-> g[2],
         credit_gp |-> r.credits * g[2]]

\* df['percent'], df['grade'], df['grade_point'], df['credit_gp'] of one row
GradeRow(r) ==
    LET p == Percent(r.marks, r.max_marks)
        g == grade_from_percent(p)
    IN  [student_id |-> r.student_id, roll |-> r.roll, name |-> r.name,
         code |-> r.code, title |-> r.title, credits |-> r.credits,
         marks |-> r.marks, max_marks |-> r.max_marks,
         percent |-> p, grade |-> g[1], grade_point |-> g[2],
         credit_gp |-> r.credits * g[2]]

GradeRows(df) == [i \in 1..Len(df) |-> GradeRow(df[i])]

\* round(n / d, 2) * 100 for d > 0: the nearest hundredth, a tie to the even one
Round2(n, d) ==
    LET q == (100 * n) \div d
        r == (100 * n) % d
    IN  IF 2 * r < d THEN q
        ELSE IF 2 * r > d THEN q + 1
        ELSE IF q % 2 = 0 THEN q ELSE q + 1

\* variant of Cgpa: the credit points total, not divided by the credits
Cgpa_undivided(total_credit_gp, total_credits) ==
    IF total_credits > 0 THEN 100 * total_credit_gp ELSE 0

\* variant of Cgpa: the quotient cut to two decimals instead of rounded
Cgpa_truncated(total_credit_gp, total_credits) ==
    IF total_credits > 0 THEN (100 * total_credit_gp) \div total_credits ELSE 0

Cgpa(total_credit_gp, total_credits) ==
    IF total_credits > 0 THEN Round2(total_credit_gp, total_credits) ELSE 0

\* variant of Summary: the timestamp written into the name field as well
Summary_stamped(df, now) ==
    LET total_credits == SumSeq(Column(df, "credits"))
        total_credit_gp == SumSeq(Column(df, "credit_gp"))
    IN  [roll |-> df[1].roll, name |-> now,
         total_credits |-> total_credits,
         total_credit_gp |-> total_credit_gp,
         cgpa |-> Cgpa(total_credit_gp, total_credits),
         generated_at |-> now]

Summary(df, now) ==
    LET total_credits == SumSeq(Column(df, "credits"))
        total_credit_gp == SumSeq(Column(df, "credit_gp"))
    IN  [roll |-> df[1].roll, name |-> df[1].name,
         total_credits |-> total_credits,
         total_credit_gp |-> total_credit_gp,
         cgpa |-> Cgpa(total_credit_gp, total_credits),
         generated_at |-> now]

\* variant of BuildReport: an empty summary instead of None for no rows
BuildReport_empty_summary(rows, now) ==
    LET df == GradeRows(rows)
    IN  [kind |-> "report", df |-> df,
         summary |-> IF rows = <<>>
                     THEN [roll |-> "", name |-> "", total_credits |-> 0,
                           total_credit_gp |-> 0, cgpa |-> 0, generated_at |-> now]
                     ELSE Summary(df, now)]

\* lines 87-106: what compute_student_report returns for the rows it read
BuildReport(rows, now) ==
    IF rows = <<>> THEN NoneVal
    ELSE LET df == GradeRows(rows)
         IN  [kind |-> "report", df |-> df, summary |-> Summary(df, now)]

(***************************************************************************)
(* Data operations                                                         *)
(***************************************************************************)
\* args: the arguments of a data operation; id: the student id a report was
\* asked for, the mark_id add_marks wrote (existing[0] or the new rowid), 0
\* otherwise; msg: the st.success / st.warning / st.error text
CalledWith(op, args, id, msg) == [op |-> op, args |-> args, id |-> id, msg |-> msg]

Called(op, id, msg) == CalledWith(op, <<>>, id, msg)

\* an operation run by the script of browser session s
CalledBy(s, op, args, id, msg) ==
    [op |-> op, args |-> args, id |-> id, msg |-> msg, session |-> s]

\* variant of HasRoll: no UNIQUE constraint on students.roll
HasRoll_unconstrained(roll) == FALSE

HasRoll(roll) == \E x \in Range(students) : x.roll = roll

HasCode(code) == \E x \in Range(subjects) : x.code = code

\* cur.fetchone() of a SELECT ... WHERE: the first matching row, in rowid order
FetchOne(hits) == IF hits = <<>> THEN NoneVal ELSE Head(hits)

\* variant of FetchStudent: SELECT student_id FROM students, no WHERE clause
FetchStudent_any(roll) == FetchOne(students)

FetchStudent(roll) == FetchOne(SelectSeq(students, LAMBDA x : x.roll = roll))

FetchSubject(code) == FetchOne(SelectSeq(subjects, LAMBDA x : x.code = code))

\* variant of FetchMark: the SELECT finds no row, so add_marks always inserts
FetchMark_none(student_id, subject_id) == NoneVal

FetchMark(student_id, subject_id) ==
    FetchOne(SelectSeq(marks, LAMBDA x : /\ x.student_id = student_id
                                         /\ x.subject_id = subject_id))

InsertStudent(roll, name, program) ==
    Append(students, [student_id |-> Len(students) + 1, roll |-> roll,
                      name |-> name, program |-> program])

InsertSubject(code, title, credits) ==
    Append(subjects, [subject_id |-> Len(subjects) + 1, code |-> code,
                      title |-> title, credits |-> credits])

InsertMark(student_id, subject_id, m, mm) ==
    Append(marks, [mark_id |-> Len(marks) + 1, student_id |-> student_id,
                   subject_id |-> subject_id, marks |-> m, max_marks |-> mm])

\* variant of UpdateMark: UPDATE marks SET marks=? only
UpdateMark_marks_only(mark_id, m, mm) ==
    [i \in 1..Len(marks) |->
        IF marks[i].mark_id = mark_id
        THEN [marks[i] EXCEPT !.marks = m]
        ELSE marks[i]]

UpdateMark(mark_id, m, mm) ==
    [i \in 1..Len(marks) |->
        IF marks[i].mark_id = mark_id
        THEN [marks[i] EXCEPT !.marks = m, !.max_marks = mm]
        ELSE marks[i]]

\* variant of PastLogin: one logged_in flag for the whole server
PastLogin_shared(s) == \E t \in Sessions : logged_in[t]

\* the pages are reached only past the login gate (lines 242-244, 590-594)
PastLogin(s) == logged_in[s]

add_student(s, roll, name, program) ==
    /\ PastLogin(s)
    /\ IF HasRoll(roll)
       THEN /\ call' = CalledBy(s, "add_student", <<roll, name, program>>, 0, "Student with this roll already exists.")
            /\ UNCHANGED students
       ELSE /\ students' = InsertStudent(roll, name, program)
            /\ call' = CalledBy(s, "add_student", <<roll, name, program>>, 0, "Student added")
    /\ result' = NoneVal
    /\ UNCHANGED <<subjects, marks, logged_in, pc, loc>>

add_subject(s, code, title, credits) ==
    /\ PastLogin(s)
    /\ IF HasCode(code)
       THEN /\ call' = CalledBy(s, "add_subject", <<code, title, credits>>, 0, "Subject with this code already exists.")
            /\ UNCHANGED subjects
       ELSE /\ subjects' = InsertSubject(code, title, credits)
            /\ call' = CalledBy(s, "add_subject", <<code, title, credits>>, 0, "Subject added")
    /\ result' = NoneVal
    /\ UNCHANGED <<students, marks, logged_in, pc, loc>>

add_marks(s, roll, subject_code, m, mm) ==
    LET st == FetchStudent(roll)
        sub == FetchSubject(subject_code)
    IN  /\ PastLogin(s)
        /\ IF st = NoneVal
           THEN /\ call' = CalledBy(s, "add_marks", <<roll, subject_code, m, mm>>, 0, "Student roll not found.")
                /\ UNCHANGED marks
           ELSE IF sub = NoneVal
           THEN /\ call' = CalledBy(s, "add_marks", <<roll, subject_code, m, mm>>, 0, "Subject code not found.")
                /\ UNCHANGED marks
           ELSE LET existing == FetchMark(st.student_id, sub.subject_id)
                IN  IF existing # NoneVal
                    THEN /\ marks' = UpdateMark(existing.mark_id, m, mm)
                         /\ call' = CalledBy(s, "add_marks", <<roll, subject_code, m, mm>>, existing.mark_id, "Marks saved")
                    ELSE /\ Len(marks) < MaxMarkRows
                         /\ marks' = InsertMark(st.student_id, sub.subject_id, m, mm)
                         /\ call' = CalledBy(s, "add_marks", <<roll, subject_code, m, mm>>, Len(marks) + 1, "Marks saved")
        /\ result' = NoneVal
        /\ UNCHANGED <<students, subjects, logged_in, pc, loc>>

\* variant of compute_student_report: stored max_marks <= 0 rewritten to 100
compute_student_report_repairs(s, sid, now) ==
    /\ PastLogin(s)
    /\ result' = BuildReport(ReportQuery(sid), now)
    /\ call' = CalledBy(s, "compute_student_report", <<>>, sid, "")
    /\ marks' = [i \in 1..Len(marks) |->
                     IF marks[i].max_marks <= 0
                     THEN [marks[i] EXCEPT !.max_marks = 100]
                     ELSE marks[i]]
    /\ UNCHANGED <<students, subjects, logged_in, pc, loc>>

compute_student_report(s, sid, now) ==
    /\ PastLogin(s)
    /\ result' = BuildReport(ReportQuery(sid), now)
    /\ call' = CalledBy(s, "compute_student_report", <<>>, sid, "")
    /\ UNCHANGED <<students, subjects, marks, logged_in, pc, loc>>

(***************************************************************************)
(* Pages that call compute_student_report                                  *)
(***************************************************************************)
\* get_all_students_df(): SELECT ... FROM students ORDER BY roll
RECURSIVE InsertByRoll(_, _)
InsertByRoll(x, sorted) ==
    IF sorted = <<>> THEN <<x>>
    ELSE IF RollRank[x.roll] < RollRank[Head(sorted).roll] THEN <<x>> \o sorted
    ELSE <<Head(sorted)>> \o InsertByRoll(x, Tail(sorted))

RECURSIVE OrderByRoll(_)
OrderByRoll(tbl) ==
    IF tbl = <<>> THEN <<>>
    ELSE InsertByRoll(tbl[Len(tbl)], OrderByRoll(SubSeq(tbl, 1, Len(tbl) - 1)))

get_all_students_df == OrderByRoll(students)

\* Student Report page: the roll comes from the selectbox over the stored rolls
student_report_page(s, roll, now) ==
    /\ PastLogin(s)
    /\ HasRoll(roll)
    /\ LET all == get_all_students_df
           sid == FetchOne(SelectSeq(all, LAMBDA x : x.roll = roll)).student_id
           res == BuildReport(ReportQuery(sid), now)
       IN  /\ result' = res
           /\ call' = CalledBy(s, "student_report_page", <<>>, sid,
                             IF res = NoneVal THEN "No marks for this student." ELSE "")
    /\ UNCHANGED <<students, subjects, marks, logged_in, pc, loc>>

\* Dashboard, first loop (lines 627-631): the cgpa of every student that has a
\* report; the loops drop each report's generated_at
RECURSIVE CgpaVals(_)
CgpaVals(sids) ==
    IF sids = <<>> THEN <<>>
    ELSE LET res == BuildReport(ReportQuery(Head(sids)), "t1")
         IN  (IF res # NoneVal THEN <<res.summary.cgpa>> ELSE <<>>)
                 \o CgpaVals(Tail(sids))

\* Dashboard, second loop (lines 639-644): one leaderboard entry per report
RECURSIVE Leaderboard(_)
Leaderboard(sids) ==
    IF sids = <<>> THEN <<>>
    ELSE LET res == BuildReport(ReportQuery(Head(sids)), "t1")
         IN  (IF res # NoneVal
              THEN <<[roll |-> res.summary.roll, name |-> res.summary.name,
                      cgpa |-> res.summary.cgpa,
                      total_credits |-> res.summary.total_credits]>>
              ELSE <<>>)
                 \o Leaderboard(Tail(sids))

\* Dashboard page; clicked: the "Compute CGPA for all students" button.  No
\* report raises, so both loops run to their end.  The class average and the
\* sort of the leaderboard are display only.
dashboard(s, clicked) ==
    /\ PastLogin(s)
    /\ LET sids == Column(get_all_students_df, "student_id")
       IN  result' = [kind |-> "dashboard", sids |-> sids,
                      cgpa_vals |-> CgpaVals(sids),
                      out |-> IF clicked THEN Leaderboard(sids) ELSE <<>>]
    /\ call' = CalledBy(s, "dashboard", <<>>, 0, IF clicked THEN "clicked" ELSE "")
    /\ UNCHANGED <<students, subjects, marks, logged_in, pc, loc>>

\* Export page: the three sheets of all_results.xlsx, the students in roll
\* order; of the subjects and marks sheets the rows, their order left out
export_page(s) ==
    /\ PastLogin(s)
    /\ result' = [kind |-> "export",
                  students |-> get_all_students_df,
                  subjects |-> Range(subjects),
                  marks |-> {JoinRow(m) : m \in Range(marks)}]
    /\ call' = CalledBy(s, "export_page", <<>>, 0, "")
    /\ UNCHANGED <<students, subjects, marks, logged_in, pc, loc>>

(***************************************************************************)
(* Login                                                                   *)
(***************************************************************************)
CREDENTIALS == [admin |-> "1234"]

login_ui(s, username, password) ==
    /\ ~logged_in[s]
    /\ IF username \in DOMAIN CREDENTIALS /\ CREDENTIALS[username] = password
       THEN /\ logged_in' = [logged_in EXCEPT ![s] = TRUE]
            /\ call' = CalledBy(s, "login_ui", <<username, password>>, 0, "")
       ELSE /\ UNCHANGED logged_in
            /\ call' = CalledBy(s, "login_ui", <<username, password>>, 0, "Invalid credentials.")
    /\ result' = NoneVal
    /\ UNCHANGED <<students, subjects, marks, pc, loc>>

logout(s) ==
    /\ logged_in[s]
    /\ logged_in' = [logged_in EXCEPT ![s] = FALSE]
    /\ call' = CalledBy(s, "logout", <<>>, 0, "")
    /\ result' = NoneVal
    /\ UNCHANGED <<students, subjects, marks, pc, loc>>

(***************************************************************************)
(* Specification: the operations run one at a time, each to completion     *)
(***************************************************************************)
Init ==
    /\ students = <<>>
    /\ subjects = <<>>
    /\ marks = <<>>
    /\ logged_in = [s \in Sessions |-> FALSE]
    /\ call = Called("init_db", 0, "")
    /\ result = NoneVal
    /\ pc = [s \in Sessions |-> "idle"]
    /\ loc = [s \in Sessions |-> NoneVal]

Next ==
    \/ \E s \in SeqSessions, u \in Usernames, p \in Passwords : login_ui(s, u, p)
    \/ \E s \in SeqSessions : logout(s)
    \/ \E s \in SeqSessions, i \in StudentInputs : add_student(s, i[1], i[2], i[3])
    \/ \E s \in SeqSessions, i \in SubjectInputs : add_subject(s, i[1], i[2], i[3])
    \/ \E s \in SeqSessions, k \in MarkPairs, i \in MarkInputs :
           add_marks(s, k[1], k[2], i[1], i[2])
    \/ \E s \in SeqSessions, sid \in SidInputs, now \in Clock :
           compute_student_report(s, sid, now)
    \/ \E s \in SeqSessions, r \in Rolls, now \in Clock :
           student_report_page(s, r, now)
    \/ \E s \in SeqSessions, clicked \in BOOLEAN : dashboard(s, clicked)

Spec == Init /\ [][Next]_vars

(***************************************************************************)
(* Specification of grade_from_percent alone: the percents are those of    *)
(* marks / max_marks * 100 over a range of marks and max_marks             *)
(***************************************************************************)
MarksRange == -10 .. 130

MaxMarksRange == {-100, 0, 50, 100, 200}

PercentInputs == {Percent(m, mm) : m \in MarksRange, mm \in MaxMarksRange}

grade_call(p) ==
    /\ result' = [kind |-> "grade", p |-> p, ret |-> grade_from_percent(p)]
    /\ call' = Called("grade_from_percent", 0, "")
    /\ UNCHANGED <<students, subjects, marks, logged_in, pc, loc>>

NextGrade == \E p \in PercentInputs : grade_call(p)

SpecGrade == Init /\ [][NextGrade]_vars

(***************************************************************************)
(* Specification of overlapping reports: each session runs                 *)
(* compute_student_report in two steps, the SELECT on its own connection   *)
(* (lines 76-86) and the computation on the rows it read (lines 87-106).   *)
(* The sessions are signed in; the stored data changes between reports.    *)
(***************************************************************************)
ConcStudentInputs == {<<"r1", "n1", "p1">>, <<"r2", "n2", "p1">>}

ConcSubjectInputs == {<<"c1", "t1", 3>>, <<"c2", "t2", 4>>}

ConcMarkInputs == {<<45, 50>>, <<20, 50>>, <<45, 0>>}

ConcSidInputs == {1, 2}

Idle == \A s \in Sessions : pc[s] = "idle"

\* variant of report_query: the rows read land in a buffer shared by the sessions
report_query_shared(s, sid) ==
    /\ PastLogin(s)
    /\ pc[s] = "idle"
    /\ pc' = [pc EXCEPT ![s] = "queried"]
    /\ loc' = [t \in Sessions |->
                  IF t = s
                  THEN [kind |-> "frame", sid |-> sid,
                        df |-> ReportQuery(sid), ret |-> NoneVal]
                  ELSE IF pc[t] = "queried"
                  THEN [loc[t] EXCEPT !.df = ReportQuery(sid)]
                  ELSE loc[t]]
    /\ UNCHANGED <<students, subjects, marks, logged_in, call, result>>

report_query(s, sid) ==
    /\ PastLogin(s)
    /\ pc[s] = "idle"
    /\ pc' = [pc EXCEPT ![s] = "queried"]
    /\ loc' = [loc EXCEPT ![s] = [kind |-> "frame", sid |-> sid,
                                  df |-> ReportQuery(sid), ret |-> NoneVal]]
    /\ UNCHANGED <<students, subjects, marks, logged_in, call, result>>

report_return(s, now) ==
    /\ pc[s] = "queried"
    /\ pc' = [pc EXCEPT ![s] = "done"]
    /\ loc' = [loc EXCEPT ![s].ret = BuildReport(loc[s].df, now)]
    /\ UNCHANGED <<students, subjects, marks, logged_in, call, result>>

report_done(s) ==
    /\ pc[s] = "done"
    /\ pc' = [pc EXCEPT ![s] = "idle"]
    /\ loc' = [loc EXCEPT ![s] = NoneVal]
    /\ UNCHANGED <<students, subjects, marks, logged_in, call, result>>

InitConc ==
    /\ students = <<>>
    /\ subjects = <<>>
    /\ marks = <<>>
    /\ logged_in = [s \in Sessions |-> TRUE]
    /\ call = Called("login_ui", 0, "")
    /\ result = NoneVal
    /\ pc = [s \in Sessions |-> "idle"]
    /\ loc = [s \in Sessions |-> NoneVal]

NextConc ==
    \/ /\ Idle
       /\ \E s \in SeqSessions, i \in ConcStudentInputs : add_student(s, i[1], i[2], i[3])
    \/ /\ Idle
       /\ \E s \in SeqSessions, i \in ConcSubjectInputs : add_subject(s, i[1], i[2], i[3])
    \/ /\ Idle
       /\ \E s \in SeqSessions, k \in MarkPairs, i \in ConcMarkInputs :
              add_marks(s, k[1], k[2], i[1], i[2])
    \/ \E s \in Sessions, sid \in ConcSidInputs : report_query(s, sid)
    \/ \E s \in Sessions, now \in Clock : report_return(s, now)
    \/ \E s \in Sessions : report_done(s)

SpecConc == InitConc /\ [][NextConc]_vars

(***************************************************************************)
(* Specification of overlapping add_marks calls: each session runs         *)
(* add_marks on its own connection in two steps, the three SELECTs (lines  *)
(* 139-153) and the UPDATE or INSERT with its commit (lines 155-166).  A   *)
(* SELECT opens no transaction, so the other session's write can fall      *)
(* between the two; the writes themselves exclude each other.              *)
(***************************************************************************)
RaceMarkInputs == {<<45, 50>>, <<20, 50>>}

\* the INSERTs that calls past their SELECTs are about to do
PendingInserts ==
    Cardinality({s \in Sessions : pc[s] = "selected" /\ loc[s].existing = NoneVal})

add_marks_select(s, roll, subject_code, m, mm) ==
    LET st == FetchStudent(roll)
        sub == FetchSubject(subject_code)
    IN  /\ PastLogin(s)
        /\ pc[s] = "idle"
        /\ IF st = NoneVal
           THEN /\ call' = CalledBy(s, "add_marks", <<roll, subject_code, m, mm>>, 0, "Student roll not found.")
                /\ UNCHANGED <<pc, loc>>
           ELSE IF sub = NoneVal
           THEN /\ call' = CalledBy(s, "add_marks", <<roll, subject_code, m, mm>>, 0, "Subject code not found.")
                /\ UNCHANGED <<pc, loc>>
           ELSE LET existing == FetchMark(st.student_id, sub.subject_id)
                IN  /\ existing = NoneVal => Len(marks) + PendingInserts < MaxMarkRows
                    /\ pc' = [pc EXCEPT ![s] = "selected"]
                    /\ loc' = [loc EXCEPT ![s] =
                                  [kind |-> "add_marks", args |-> <<roll, subject_code, m, mm>>,
                                   student_id |-> st.student_id,
                                   subject_id |-> sub.subject_id,
                                   existing |-> existing]]
                    /\ UNCHANGED call
        /\ UNCHANGED <<students, subjects, marks, logged_in, result>>

add_marks_write(s) ==
    /\ pc[s] = "selected"
    /\ LET f == loc[s]
       IN  IF f.existing # NoneVal
           THEN /\ marks' = UpdateMark(f.existing.mark_id, f.args[3], f.args[4])
                /\ call' = CalledBy(s, "add_marks", f.args, f.existing.mark_id, "Marks saved")
           ELSE /\ marks' = InsertMark(f.student_id, f.subject_id, f.args[3], f.args[4])
                /\ call' = CalledBy(s, "add_marks", f.args, Len(marks) + 1, "Marks saved")
    /\ pc' = [pc EXCEPT ![s] = "idle"]
    /\ loc' = [loc EXCEPT ![s] = NoneVal]
    /\ result' = NoneVal
    /\ UNCHANGED <<students, subjects, logged_in>>

NextRace ==
    \/ /\ Idle
       /\ \E s \in SeqSessions, i \in ConcStudentInputs : add_student(s, i[1], i[2], i[3])
    \/ /\ Idle
       /\ \E s \in SeqSessions, i \in ConcSubjectInputs : add_subject(s, i[1], i[2], i[3])
    \/ \E s \in Sessions, k \in MarkPairs, i \in RaceMarkInputs :
           add_marks_select(s, k[1], k[2], i[1], i[2])
    \/ \E s \in Sessions : add_marks_write(s)

SpecRace == InitConc /\ [][NextRace]_vars

(***************************************************************************)
(* Specification of the login gate: the script runs of two browser         *)
(* sessions, each with its own st.session_state, one run at a time         *)
(***************************************************************************)
GateStudentInputs == {<<"r1", "n1", "p1">>}

GateSubjectInputs == {<<"c1", "t1", 3>>}

GateMarkInputs == {<<45, 50>>, <<20, 50>>}

NextLogin ==
    \/ \E s \in Sessions, u \in Usernames, p \in Passwords : login_ui(s, u, p)
    \/ \E s \in Sessions : logout(s)
    \/ \E s \in Sessions, i \in GateStudentInputs : add_student(s, i[1], i[2], i[3])
    \/ \E s \in Sessions, i \in GateSubjectInputs : add_subject(s, i[1], i[2], i[3])
    \/ \E s \in Sessions, i \in GateMarkInputs : add_marks(s, "r1", "c1", i[1], i[2])
    \/ \E s \in Sessions : compute_student_report(s, 1, "t1")
    \/ \E s \in Sessions : student_report_page(s, "r1", "t1")
    \/ \E s \in Sessions, clicked \in BOOLEAN : dashboard(s, clicked)
    \/ \E s \in Sessions : export_page(s)

SpecLogin == Init /\ [][NextLogin]_vars

(***************************************************************************)
(* Properties                                                              *)
(***************************************************************************)
Abs(x) == IF x < 0 THEN -x ELSE x

RECURSIVE Total(_)
Total(vals) ==
    IF Len(vals) = 0 THEN 0
    ELSE vals[Len(vals)] + Total(SubSeq(vals, 1, Len(vals) - 1))

\* the band table of the grading contract, for the percent n/d with d > 0
BandOf(n, d) ==
    CASE n >= 90 * d -> <<"A+", 10>>
      [] n >= 80 * d /\ n < 90 * d -> <<"A", 9>>
      [] n >= 70 * d /\ n < 80 * d -> <<"B+", 8>>
      [] n >= 60 * d /\ n < 70 * d -> <<"B", 7>>
      [] n >= 50 * d /\ n < 60 * d -> <<"C", 6>>
      [] n >= 40 * d /\ n < 50 * d -> <<"D", 5>>
      [] n < 40 * d -> <<"F", 0>>

\* a report was asked for one student and the last operation returned it
ReportCall == call.op \in {"compute_student_report", "student_report_page"}

\* the indices of the stored marks rows of student sid
RowsOf(sid) == {i \in 1..Len(marks) : marks[i].student_id = sid}

SubjectOf(i) == CHOOSE x \in Range(subjects) : x.subject_id = marks[i].subject_id

\* C1: grade_from_percent(p) is the pair of the band p falls in, the lower
\* bound of each band included, with no clamping: an infinite percent (a
\* division by zero) is above 90, a percent above 100 is A+, one below 0 is F.
C1_GradeBands ==
    (call.op = "grade_from_percent") =>
        LET p == result.p
        IN  /\ p.k = "fin" => result.ret = BandOf(p.n, p.d)
            /\ p.k = "inf" => result.ret = <<"A+", 10>>
            /\ p.k = "ninf" => result.ret = <<"F", 0>>

\* C1 witness: the boundary 40 graded D, i.e. in the higher band
C1_Witness ==
    /\ call.op = "grade_from_percent"
    /\ result.p.k = "fin"
    /\ result.p.n = 40 * result.p.d
    /\ result.ret = <<"D", 5>>

\* C2: in a returned report, total_credits and total_credit_gp are the sums of
\* credits and of credits * grade_point over the student's stored records, and
\* cgpa is their quotient to the nearest hundredth when total_credits > 0 and
\* exactly 0 when total_credits = 0.
C2_CgpaWeightedMean ==
    (ReportCall /\ result.kind = "report") =>
        LET df == result.df
            sm == result.summary
            tc == Total([k \in 1..Len(df) |-> df[k].credits])
            tg == Total([k \in 1..Len(df) |-> df[k].credits * df[k].grade_point])
        IN  /\ Len(df) = Cardinality(RowsOf(call.id))
            /\ \A i \in RowsOf(call.id) :
                   df[Cardinality({j \in RowsOf(call.id) : j <= i})].credits
                       = SubjectOf(i).credits
            /\ sm.total_credits = tc
            /\ sm.total_credit_gp = tg
            /\ tc > 0 => 2 * Abs(100 * tg - sm.cgpa * tc) <= tc
            /\ tc = 0 => sm.cgpa = 0

\* C2 witness: a report over records whose credits are all zero, cgpa 0.0
C2_Witness ==
    /\ ReportCall
    /\ result.kind = "report"
    /\ Len(result.df) >= 1
    /\ result.summary.total_credits = 0
    /\ result.summary.cgpa = 0

\* C3 (as claimed): a report is never returned for a student one of whose
\* stored records has max_marks <= 0; the call signals invalid input instead.
C3_InvalidInputRejected ==
    (ReportCall /\ \E i \in RowsOf(call.id) : marks[i].max_marks <= 0) =>
        result.kind = "InvalidInput"

\* C4: a report call returns None exactly when the student has no stored marks
\* record (a student id that is not stored included), and a (df, summary) pair
\* with one row at least otherwise.
C4_NoneIffNoMarks ==
    ReportCall =>
        /\ RowsOf(call.id) = {} => result = NoneVal
        /\ RowsOf(call.id) # {} =>
               /\ result.kind = "report"
               /\ Len(result.df) >= 1
               /\ result.summary.roll = result.df[1].roll

\* C4 witness: None returned for a stored student without marks
C4_Witness ==
    /\ call.op = "compute_student_report"
    /\ \E x \in Range(students) : x.student_id = call.id
    /\ marks # <<>>
    /\ result = NoneVal

\* C5: every row of a returned report whose max_marks > 0 has percent =
\* marks / max_marks * 100, the grade and grade point of that percent's band,
\* and credit_gp = credits * grade_point, all from the row's own fields.
C5_RowGrading ==
    (ReportCall /\ result.kind = "report") =>
        \A k \in 1..Len(result.df) :
            LET r == result.df[k]
            IN  r.max_marks > 0 =>
                    /\ r.percent.k = "fin"
                    /\ r.percent.d > 0
                    /\ r.percent.n * r.max_marks = r.marks * 100 * r.percent.d
                    /\ <<r.grade, r.grade_point>> = BandOf(r.marks * 100, r.max_marks)
                    /\ r.credit_gp = r.credits * r.grade_point

\* C5 witness: a row of 20 out of 50 (40 percent) graded D next to another row
C5_Witness ==
    /\ ReportCall
    /\ result.kind = "report"
    /\ Len(result.df) = 2
    /\ \E k \in 1..2 :
           /\ result.df[k].marks = 20
           /\ result.df[k].max_marks = 50
           /\ result.df[k].grade = "D"
           /\ result.df[k].credit_gp = 5 * result.df[k].credits

\* C6: a returned report has one row per stored marks record of the student,
\* in the order of the stored records, each with the code, title and credits
\* of its subject and the marks and max_marks of its record.
C6_RowsInOrder ==
    (ReportCall /\ result.kind = "report") =>
        /\ Len(result.df) = Cardinality(RowsOf(call.id))
        /\ \A i \in RowsOf(call.id) :
               LET r == result.df[Cardinality({j \in RowsOf(call.id) : j <= i})]
               IN  /\ r.code = SubjectOf(i).code
                   /\ r.title = SubjectOf(i).title
                   /\ r.credits = SubjectOf(i).credits
                   /\ r.marks = marks[i].marks
                   /\ r.max_marks = marks[i].max_marks

\* C6 witness: two rows, stored (and reported) c2 before c1
C6_Witness ==
    /\ ReportCall
    /\ result.kind = "report"
    /\ Len(result.df) = 2
    /\ result.df[1].code = "c2"
    /\ result.df[2].code = "c1"

\* C7: a step that computes a report (compute_student_report itself, or a page
\* that calls it) leaves the three tables and every session's login flag as
\* they were, and writes nothing but its own return value.
C7_ReportHasNoSideEffect ==
    [][(call'.op \in {"compute_student_report", "student_report_page", "dashboard"})
          => UNCHANGED <<students, subjects, marks, logged_in, pc, loc>>]_vars

\* C7 witness: a report was returned while data is stored and a session signed in
C7_Witness ==
    /\ call.op = "compute_student_report"
    /\ result.kind = "report"
    /\ Len(marks) = 2
    /\ logged_in["s1"]

\* the report of the student with this roll, computed on the stored data, shows
\* exactly one row for the subject code, with marks m and max_marks mm
ShownInReport(roll, code, m, mm) ==
    LET st == CHOOSE x \in Range(students) : x.roll = roll
        rep == BuildReport(ReportQuery(st.student_id), "t1")
    IN  /\ rep.kind = "report"
        /\ \E k \in 1..Len(rep.df) :
               /\ rep.df[k].code = code
               /\ rep.df[k].marks = m
               /\ rep.df[k].max_marks = mm
               /\ \A j \in 1..Len(rep.df) : rep.df[j].code = code => j = k

\* the returned report shows the stored marks rows of the student, no more, no less
ReflectsStored ==
    IF RowsOf(call.id) = {} THEN result = NoneVal
    ELSE /\ result.kind = "report"
         /\ Len(result.df) = Cardinality(RowsOf(call.id))
         /\ \A i \in RowsOf(call.id) : \E k \in 1..Len(result.df) :
                /\ result.df[k].code = SubjectOf(i).code
                /\ result.df[k].marks = marks[i].marks
                /\ result.df[k].max_marks = marks[i].max_marks

\* C8: every report call returns what the marks table holds at that moment, and
\* once add_marks(roll, code, m, mm) has saved, the student's report computed
\* on the stored data shows m and mm for that subject, whatever was stored or
\* reported before.
C8_ReportsAreFresh ==
    /\ ReportCall => ReflectsStored
    /\ (call.op = "add_marks" /\ call.msg = "Marks saved") =>
           ShownInReport(call.args[1], call.args[2], call.args[3], call.args[4])

\* C8 witness: add_marks overwrote a row that was stored before another one
C8_Witness ==
    /\ call.op = "add_marks"
    /\ call.msg = "Marks saved"
    /\ call.id < Len(marks)
    /\ Len(marks) >= 2

\* C9 (as claimed): in the leaderboard batch a student with a record whose
\* max_marks <= 0 gets no entry (only that report fails), and every student
\* whose records are all valid gets the entry of the report computed alone.
C9_BatchIsolatesInvalid ==
    (call.op = "dashboard" /\ call.msg = "clicked") =>
        \A st \in Range(students) :
            LET rows == RowsOf(st.student_id)
                alone == BuildReport(ReportQuery(st.student_id), "t1")
            IN  /\ (\E i \in rows : marks[i].max_marks <= 0) =>
                       ~ \E k \in 1..Len(result.out) : result.out[k].roll = st.roll
                /\ (rows # {} /\ \A i \in rows : marks[i].max_marks > 0) =>
                       \E k \in 1..Len(result.out) :
                           /\ result.out[k].roll = st.roll
                           /\ result.out[k].cgpa = alone.summary.cgpa

\* what the batch does do: one entry per student that has marks, in roll order,
\* each the cgpa and total_credits of the report computed for that student alone
BatchIndependent ==
    (call.op = "dashboard" /\ call.msg = "clicked") =>
        /\ Len(result.out) =
               Cardinality({st \in Range(students) : RowsOf(st.student_id) # {}})
        /\ \A st \in Range(students) : RowsOf(st.student_id) # {} =>
               LET alone == BuildReport(ReportQuery(st.student_id), "t1")
               IN  \E k \in 1..Len(result.out) :
                       /\ result.out[k].roll = st.roll
                       /\ result.out[k].cgpa = alone.summary.cgpa
                       /\ result.out[k].total_credits = alone.summary.total_credits

\* two reports equal but for generated_at
SameReport(a, b) ==
    /\ a.kind = b.kind
    /\ a.kind = "report" =>
           /\ a.df = b.df
           /\ a.summary.roll = b.summary.roll
           /\ a.summary.name = b.summary.name
           /\ a.summary.total_credits = b.summary.total_credits
           /\ a.summary.total_credit_gp = b.summary.total_credit_gp
           /\ a.summary.cgpa = b.summary.cgpa

\* C10: with reports of several sessions in flight at once, each returns the
\* report of its own student computed on the stored data, and a step of one
\* report changes neither the stored data nor the other session's report.
C10_ConcurrentReportsIndependent ==
    /\ [](\A s \in Sessions : pc[s] = "done" =>
             SameReport(loc[s].ret, BuildReport(ReportQuery(loc[s].sid), "t1")))
    /\ [][\A s \in Sessions : pc'[s] # pc[s] =>
             /\ UNCHANGED <<students, subjects, marks, logged_in>>
             /\ \A t \in Sessions \ {s} : pc'[t] = pc[t] /\ loc'[t] = loc[t]]_vars

\* C10 witness: one session has its report while the other, asked for another
\* student, is between its SELECT and its return
C10_Witness ==
    /\ pc["s1"] = "done"
    /\ pc["s2"] = "queried"
    /\ loc["s1"].sid # loc["s2"].sid
    /\ loc["s1"].ret.kind = "report"
    /\ loc["s2"].df # <<>>

C12_CgpaInRange ==
    (/\ ReportCall
     /\ result.kind = "report"
     /\ \A i \in RowsOf(call.id) :
            SubjectOf(i).credits >= 0 /\ marks[i].max_marks > 0) =>
        LET df == result.df
            sm == result.summary
            weighted == {k \in 1..Len(df) : df[k].credits > 0}
        IN  /\ sm.cgpa >= 0
            /\ sm.cgpa <= 1000
            /\ sm.total_credits > 0 =>
                   /\ \E k \in weighted : 100 * df[k].grade_point <= sm.cgpa
                   /\ \E k \in weighted : sm.cgpa <= 100 * df[k].grade_point

\* C12 witness: grade points 10 and 5 on 3 and 4 credits, cgpa 7.14 in between
C12_Witness ==
    /\ ReportCall
    /\ result.kind = "report"
    /\ Len(result.df) = 2
    /\ \A k \in 1..2 : result.df[k].credits > 0 /\ result.df[k].max_marks > 0
    /\ {result.df[1].grade_point, result.df[2].grade_point} = {5, 10}
    /\ result.summary.cgpa = 714

\* the indices of the stored marks rows of the pair (roll, subject code)
RowsOfPair(roll, code) ==
    {i \in 1..Len(marks) :
        \E st \in Range(students), sub \in Range(subjects) :
            /\ st.roll = roll
            /\ sub.code = code
            /\ marks[i].student_id = st.student_id
            /\ marks[i].subject_id = sub.subject_id}

\* C13: with the calls run one at a time, no two marks rows share a
\* (student_id, subject_id) pair, and an add_marks call for a pair that has a
\* row sets that row's marks and max_marks, adds no row and leaves every
\* other row as it was.
C13_OneRowPerPair ==
    /\ [](\A i, j \in 1..Len(marks) :
             (/\ marks[i].student_id = marks[j].student_id
              /\ marks[i].subject_id = marks[j].subject_id) => i = j)
    /\ [][(/\ call'.op = "add_marks"
            /\ RowsOfPair(call'.args[1], call'.args[2]) # {}) =>
              /\ call'.msg = "Marks saved"
              /\ Len(marks') = Len(marks)
              /\ \A i \in 1..Len(marks) :
                     marks'[i] =
                         IF i \in RowsOfPair(call'.args[1], call'.args[2])
                         THEN [marks[i] EXCEPT !.marks = call'.args[3],
                                               !.max_marks = call'.args[4]]
                         ELSE marks[i]]_vars

\* C13 witness: add_marks overwrote the first of two stored rows with new
\* values while the second row belongs to another pair
C13_Witness ==
    /\ call.op = "add_marks"
    /\ call.msg = "Marks saved"
    /\ call.id = 1
    /\ Len(marks) = 2
    /\ marks[1].marks = call.args[3]
    /\ marks[1].max_marks = call.args[4]
    /\ <<marks[2].student_id, marks[2].subject_id>>
           # <<marks[1].student_id, marks[1].subject_id>>
    /\ marks[2].marks # marks[1].marks

\* C14 (as claimed): however two sessions' add_marks calls interleave, the
\* marks table never holds two rows for one (student_id, subject_id) pair, so
\* no student's report lists a subject code twice.
C14_ConcurrentAddMarksOneRow ==
    /\ \A k \in MarkPairs : Cardinality(RowsOfPair(k[1], k[2])) <= 1
    /\ \A st \in Range(students) :
           LET rep == BuildReport(ReportQuery(st.student_id), "t1")
           IN  rep # NoneVal =>
                   \A j, k \in 1..Len(rep.df) :
                       rep.df[j].code = rep.df[k].code => j = k

\* C15: an add_marks call whose roll is not stored reports "Student roll not
\* found.", one whose roll is stored and whose subject code is not reports
\* "Subject code not found.", and both leave the three tables as they were;
\* every marks row carries the id of a stored student and of a stored subject.
C15_UnknownRollOrCodeRejected ==
    /\ [](\A i \in 1..Len(marks) :
             /\ \E x \in Range(students) : x.student_id = marks[i].student_id
             /\ \E x \in Range(subjects) : x.subject_id = marks[i].subject_id)
    /\ [][call'.op = "add_marks" =>
              LET no_roll == \A x \in Range(students) : x.roll # call'.args[1]
                  no_code == \A x \in Range(subjects) : x.code # call'.args[2]
              IN  /\ no_roll =>
                         /\ call'.msg = "Student roll not found."
                         /\ UNCHANGED <<students, subjects, marks>>
                  /\ (~no_roll /\ no_code) =>
                         /\ call'.msg = "Subject code not found."
                         /\ UNCHANGED <<students, subjects, marks>>]_vars

\* C15 witness: add_marks for a stored roll and a subject code that is not
\* stored was refused while the tables hold rows
C15_Witness ==
    /\ call.op = "add_marks"
    /\ call.msg = "Subject code not found."
    /\ call.args[2] = "c2"
    /\ \E x \in Range(students) : x.roll = call.args[1]
    /\ \A x \in Range(subjects) : x.code # "c2"
    /\ Len(marks) = 1

\* C16: no two stored students share a roll and no two stored subjects share a
\* code; an add_student call with a stored roll, and an add_subject call with
\* a stored code, ends in its warning and leaves the three tables as they
\* were, so the row stored first keeps its name, program, title and credits.
C16_RollAndCodeUnique ==
    /\ [](\A i, j \in 1..Len(students) :
             students[i].roll = students[j].roll => i = j)
    /\ [](\A i, j \in 1..Len(subjects) :
             subjects[i].code = subjects[j].code => i = j)
    /\ [][(/\ call'.op = "add_student"
            /\ \E x \in Range(students) : x.roll = call'.args[1]) =>
              /\ call'.msg = "Student with this roll already exists."
              /\ UNCHANGED <<students, subjects, marks>>]_vars
    /\ [][(/\ call'.op = "add_subject"
            /\ \E x \in Range(subjects) : x.code = call'.args[1]) =>
              /\ call'.msg = "Subject with this code already exists."
              /\ UNCHANGED <<students, subjects, marks>>]_vars

\* C16 witness: add_student was refused for a stored roll with another name
\* and program, and the stored row kept the first name
C16_Witness ==
    /\ call.op = "add_student"
    /\ call.msg = "Student with this roll already exists."
    /\ \E x \in Range(students) :
           /\ x.roll = call.args[1]
           /\ x.name # call.args[2]
           /\ x.program # call.args[3]
    /\ subjects # <<>>
    /\ marks # <<>>

\* the operations behind the login gate: the five pages and the data calls
GatedOps ==
    {"dashboard", "student_report_page", "export_page", "compute_student_report",
     "add_student", "add_subject", "add_marks"}

\* C17: every session starts signed out; a script run of a session whose
\* logged_in flag is false renders no page and makes no add_student,
\* add_subject or add_marks call; a session's flag turns true only in a run of
\* that session's login form with username admin and password 1234; a login
\* with anything else shows the error and leaves every flag as it was.
C17_LoginGate ==
    /\ \A s \in Sessions : ~logged_in[s]
    /\ [][call'.op \in GatedOps => logged_in[call'.session]]_vars
    /\ [][\A s \in Sessions : (~logged_in[s] /\ logged_in'[s]) =>
              /\ call'.op = "login_ui"
              /\ call'.session = s
              /\ call'.args = <<"admin", "1234">>]_vars
    /\ [][(call'.op = "login_ui" /\ call'.args # <<"admin", "1234">>) =>
              /\ call'.msg = "Invalid credentials."
              /\ ~logged_in[call'.session]
              /\ logged_in' = logged_in]_vars

\* C17 witness: one session is signed in and stored data, the other has just
\* failed to sign in with the right username and a wrong password
C17_Witness ==
    /\ call.op = "login_ui"
    /\ call.args = <<"admin", "0000">>
    /\ call.msg = "Invalid credentials."
    /\ ~logged_in[call.session]
    /\ \E t \in Sessions : logged_in[t]
    /\ marks # <<>>

====
